---- MODULE Spec2Model ----
(***************************************************************************)
(* Model of the outbound calling system's call lifecycle.                  *)
(*                                                                         *)
(* The repository holds two implementations of the lifecycle:              *)
(*   "v1"  the monolith app.py (Flask handlers, one thread per call,       *)
(*         CallDatabase on sqlite, status kept as a raw string), and       *)
(*   "v2"  the package src/ (web/routes.py, core/services.py CallService,  *)
(*         utils/validators.py), whose DatabaseService, models and         *)
(*         AsyncSynthflowClient are not part of the repository.            *)
(* A behaviour of Spec follows one call through one of the two, chosen in  *)
(* Init (impl).  Text is modelled as a tuple of one-character strings, so  *)
(* that strip(), the phone pattern and `phrase in transcript` are computed *)
(* and not assumed.                                                        *)
(***************************************************************************)
EXTENDS Integers, Sequences, FiniteSets, TLC

\* Python's None: a key missing from the JSON body (dict.get gives None), a
\* NULL column.  Every nullable value of the model is a tuple of strings (text
\* is a tuple of characters), so None is a tuple no text equals.
None == <<"None">>

\* Python's True and False where the value may also be None (Call.success).
PyTrue == <<"True">>
PyFalse == <<"False">>
PyBool(b) == IF b THEN PyTrue ELSE PyFalse

-----------------------------------------------------------------------------
(* Text                                                                    *)

Whitespace == {" ", "\t", "\n"}

Digits == {"0", "1", "2", "3", "4", "5", "6", "7", "8", "9"}

\* x * n  (Python 'x' * n)
Repeat(c, n) == [i \in 1..n |-> c]

RECURSIVE LStrip(_)
LStrip(s) ==
    IF s = <<>> THEN <<>>
    ELSE IF Head(s) \in Whitespace THEN LStrip(Tail(s)) ELSE s

RECURSIVE RStrip(_)
RStrip(s) ==
    IF s = <<>> THEN <<>>
    ELSE IF s[Len(s)] \in Whitespace THEN RStrip(SubSeq(s, 1, Len(s) - 1)) ELSE s

\* str.strip()
Strip(s) == RStrip(LStrip(s))

\* Python truthiness of an optional string: None and "" are falsy.
Truthy(v) == v # None /\ v # <<>>

\* needle in haystack  (substring test on str)
Contains(haystack, needle) ==
    \E i \in 0..(Len(haystack) - Len(needle)) :
        SubSeq(haystack, i + 1, i + Len(needle)) = needle

-----------------------------------------------------------------------------
(* Sample text the inputs are drawn from                                   *)

EmptyStr == <<>>
BlankStr == <<" ", " ", " ">>
JohnDoe == <<"J", "o", "h", "n", " ", "D", "o", "e">>
Phone1 == <<"+", "1", "2", "3", "4", "5", "6", "7", "8", "9", "0">>
Phone2 == <<"+", "0", "9", "8", "7", "6", "5", "4", "3", "2", "1">>
BadPhoneWord == <<"i", "n", "v", "a", "l", "i", "d">>
BadPhoneShort == <<"1", "2", "3">>
TestAction == <<"T", "e", "s", "t", " ", "a", "c", "t", "i", "o", "n">>

-----------------------------------------------------------------------------
(* utils/validators.py                                                     *)

MaxNameLen == 100
MaxActionLen == 1000
MaxInfoLen == 2000
MinPhoneDigits == 10
MaxPhoneDigits == 14

\* re.sub(r'[^\d+]', '', phone)
PhoneCleaned(phone) == SelectSeq(phone, LAMBDA c : c \in Digits \cup {"+"})

\* re.match(r'^(\+?1?)?[0-9]{10,14}$', cleaned): an optional "+", an optional
\* "1", then 10 to 14 digits up to the end.
PhonePatternMatches(cleaned) ==
    \E p \in {0, 1}, o \in {0, 1} :
        /\ Len(cleaned) >= p + o
        /\ p = 1 => cleaned[1] = "+"
        /\ o = 1 => cleaned[p + 1] = "1"
        /\ Len(cleaned) - p - o \in MinPhoneDigits..MaxPhoneDigits
        /\ \A i \in (p + o + 1)..Len(cleaned) : cleaned[i] \in Digits

validate_phone_number(phone) ==
    IF ~Truthy(phone) THEN FALSE
    ELSE PhonePatternMatches(PhoneCleaned(phone))

required_fields == <<"caller_name", "caller_phone", "phone_number", "account_action">>

RequestFields == {"caller_name", "caller_phone", "phone_number", "account_action",
                  "additional_info"}

\* `not data.get(field) or not str(data[field]).strip()`
FieldIsBlank(data, field) ==
    \/ ~Truthy(data[field])
    \/ Strip(data[field]) = <<>>

RequiredError(field) == <<field, "is required">>
PhoneError(field) == <<field, "must be a valid phone number">>
LengthError(field, limit) == <<field, "must be less than", ToString(limit), "characters">>

RECURSIVE RequiredErrors(_, _)
RequiredErrors(data, i) ==
    IF i > Len(required_fields) THEN <<>>
    ELSE (IF FieldIsBlank(data, required_fields[i])
          THEN <<RequiredError(required_fields[i])>> ELSE <<>>)
         \o RequiredErrors(data, i + 1)

PhoneErrors(data, field) ==
    IF Truthy(data[field]) /\ ~validate_phone_number(data[field])
    THEN <<PhoneError(field)>> ELSE <<>>

LengthErrors(data, field, limit) ==
    IF Truthy(data[field]) /\ Len(data[field]) > limit
    THEN <<LengthError(field, limit)>> ELSE <<>>

\* The list validate_call_request returns, in the order it appends.
validate_call_request(data) ==
    RequiredErrors(data, 1)
    \o PhoneErrors(data, "caller_phone")
    \o PhoneErrors(data, "phone_number")
    \o LengthErrors(data, "caller_name", MaxNameLen)
    \o LengthErrors(data, "account_action", MaxActionLen)
    \o LengthErrors(data, "additional_info", MaxInfoLen)

-----------------------------------------------------------------------------
(* app.py create_call: the required-field check of the monolith           *)

required_fields_v1 == <<"phone_number", "caller_name", "caller_phone", "account_action">>

MissingError(field) == <<"Missing required field:", field>>

\* `for field in required_fields: if not data.get(field): return ... 400`:
\* the first falsy field ends the request; a whitespace-only value is truthy.
RECURSIVE create_call_check(_, _)
create_call_check(data, i) ==
    IF i > Len(required_fields_v1) THEN <<>>
    ELSE IF ~Truthy(data[required_fields_v1[i]])
         THEN <<MissingError(required_fields_v1[i])>>
         ELSE create_call_check(data, i + 1)

-----------------------------------------------------------------------------
(* The success classifier: CallService._analyze_call_success and           *)
(* app.py analyze_call_success                                             *)

UpperChars == <<"A", "B", "C", "D", "E", "F", "G", "H", "I", "J", "K", "L", "M",
                "N", "O", "P", "Q", "R", "S", "T", "U", "V", "W", "X", "Y", "Z">>

LowerChars == <<"a", "b", "c", "d", "e", "f", "g", "h", "i", "j", "k", "l", "m",
                "n", "o", "p", "q", "r", "s", "t", "u", "v", "w", "x", "y", "z">>

LowerChar(c) ==
    IF \E i \in 1..Len(UpperChars) : UpperChars[i] = c
    THEN LowerChars[CHOOSE i \in 1..Len(UpperChars) : UpperChars[i] = c]
    ELSE c

\* str.lower()
Lower(s) == [i \in 1..Len(s) |-> LowerChar(s[i])]

\* services.py: the first ten phrases are also app.py's list.
success_phrases == <<
    <<"a", "c", "c", "o", "u", "n", "t", " ", "a", "d", "j", "u", "s", "t", "e", "d">>,
    <<"a", "d", "j", "u", "s", "t", "m", "e", "n", "t", " ", "m", "a", "d", "e">>,
    <<"c", "h", "a", "n", "g", "e", " ", "c", "o", "m", "p", "l", "e", "t", "e", "d">>,
    <<"u", "p", "d", "a", "t", "e", "d", " ", "s", "u", "c", "c", "e", "s", "s", "f", "u", "l", "l", "y">>,
    <<"m", "o", "d", "i", "f", "i", "c", "a", "t", "i", "o", "n", " ", "c", "o", "m", "p", "l", "e", "t", "e">>,
    <<"d", "o", "n", "e">>,
    <<"p", "r", "o", "c", "e", "s", "s", "e", "d">>,
    <<"c", "o", "m", "p", "l", "e", "t", "e", "d">>,
    <<"c", "o", "n", "f", "i", "r", "m", "e", "d">>,
    <<"y", "e", "s", ",", " ", "t", "h", "a", "t", "'", "s", " ", "d", "o", "n", "e">>,
    <<"r", "e", "q", "u", "e", "s", "t", " ", "p", "r", "o", "c", "e", "s", "s", "e", "d">>,
    <<"c", "h", "a", "n", "g", "e", " ", "a", "p", "p", "l", "i", "e", "d">>,
    <<"u", "p", "d", "a", "t", "e", " ", "c", "o", "m", "p", "l", "e", "t", "e">>
>>

success_phrases_v1 == SubSeq(success_phrases, 1, 10)

failure_phrases == <<
    <<"c", "a", "n", "n", "o", "t", " ", "d", "o", " ", "t", "h", "a", "t">>,
    <<"u", "n", "a", "b", "l", "e", " ", "t", "o">>,
    <<"n", "o", "t", " ", "a", "u", "t", "h", "o", "r", "i", "z", "e", "d">>,
    <<"n", "e", "e", "d", " ", "v", "e", "r", "i", "f", "i", "c", "a", "t", "i", "o", "n">>,
    <<"c", "a", "l", "l", "b", "a", "c", "k", " ", "r", "e", "q", "u", "i", "r", "e", "d">>,
    <<"s", "u", "p", "e", "r", "v", "i", "s", "o", "r", " ", "n", "e", "e", "d", "e", "d">>,
    <<"s", "y", "s", "t", "e", "m", " ", "d", "o", "w", "n">>,
    <<"n", "o", "t", " ", "p", "o", "s", "s", "i", "b", "l", "e">>,
    <<"d", "e", "n", "i", "e", "d">>,
    <<"r", "e", "j", "e", "c", "t", "e", "d">>,
    <<"e", "r", "r", "o", "r", " ", "o", "c", "c", "u", "r", "r", "e", "d">>
>>

failure_phrases_v1 == SubSeq(failure_phrases, 1, 7)

\* sum(1 for phrase in phrases if phrase in transcript_lower)
Score(phrases, text) ==
    Cardinality({i \in 1..Len(phrases) : Contains(text, phrases[i])})

\* The comparison of the two scores the other way round.
_analyze_call_success_Swapped(transcript) ==
    IF ~Truthy(transcript) THEN FALSE
    ELSE Score(failure_phrases, Lower(transcript))
            > Score(success_phrases, Lower(transcript))

\* CallService._analyze_call_success
_analyze_call_success(transcript) ==
    IF ~Truthy(transcript) THEN FALSE
    ELSE Score(success_phrases, Lower(transcript))
            > Score(failure_phrases, Lower(transcript))

\* app.py analyze_call_success
analyze_call_success(transcript) ==
    IF ~Truthy(transcript) THEN FALSE
    ELSE Score(success_phrases_v1, Lower(transcript))
            > Score(failure_phrases_v1, Lower(transcript))

ClosedConfirmed == <<"Y", "o", "u", "r", " ", "a", "c", "c", "o", "u", "n", "t", " ", "h", "a", "s", " ", "b", "e", "e", "n", " ", "c", "l", "o", "s", "e", "d", ".", " ", "C", "o", "n", "f", "i", "r", "m", "e", "d", ".">>

UnableTo == <<"I", " ", "a", "m", " ", "u", "n", "a", "b", "l", "e", " ", "t", "o", " ", "d", "o", " ", "t", "h", "a", "t", ".">>

Transcripts == {EmptyStr, ClosedConfirmed, UnableTo}

-----------------------------------------------------------------------------
(* Statuses and the provider's answers                                     *)

\* core/models.py CallStatus, by the values tests/unit/test_models.py lists.
CallStatus == {"pending", "initiating", "dialing", "in_progress", "completed",
               "failed", "terminated", "no_answer", "busy"}

\* The statuses on which both poll loops fetch the transcript and stop.
FinishedStatuses == {"completed", "failed", "no_answer", "busy"}

\* The statuses CallService.terminate_call accepts.
ActiveStatuses == {"dialing", "in_progress"}

\* Terminal statuses a call's own processing can persist.
OwnTerminalStatuses == FinishedStatuses \cup {"timeout"}

\* No status yet: the monolith's `last_status = None`, an unset local.
NoStatus == "None"

\* What the provider may report as calls[0].status.
RawStatuses == {"queue", "ringing", "pending", "dialing", "in_progress",
                "completed", "failed", "no_answer", "busy"}

Now == <<"now">>

ProvId == <<"p", "r", "o", "v", "-", "1">>
UnknownId == <<"u", "n", "k", "n", "o", "w", "n">>

AuthError == <<"401 Unauthorized">>
Durations == {<<"0">>, <<"3", "7">>}

\* What get_call_status gives the poll loop: kind "calls" carries
\* response.calls[0].status and its duration (0 until the call has
\* finished); kind "flat" has no response.calls (its top-level status is "ok"
\* or absent); kind "error" is the monolith's {"error": ..} and, for
\* CallService, an exception raised by the client.
StatusResults ==
    [kind : {"calls"}, status : FinishedStatuses, duration : Durations]
    \cup [kind : {"calls"}, status : RawStatuses \ FinishedStatuses, duration : {<<"0">>}]
    \cup [kind : {"flat", "error"}, status : {"ok"}, duration : {<<"0">>}]

\* What create_call gives: accepted with a call id (possibly none in the
\* body), refused with an error text, or (CallService) an exception whose
\* str() may be empty.
CreateResults ==
    [kind : {"ok"}, call_id : {ProvId, UnknownId, None}, error : {None}]
    \cup [kind : {"error"}, call_id : {None}, error : {AuthError}]
    \cup [kind : {"raise"}, call_id : {None}, error : {AuthError, EmptyStr}]

\* What get_call_transcript gives: a text, or a failure.
TranscriptResults ==
    [kind : {"ok"}, transcript : Transcripts]
    \cup [kind : {"error"}, transcript : {EmptyStr}]

-----------------------------------------------------------------------------
(* Requests                                                                *)

Request(name, cphone, phone, action, info) ==
    [caller_name |-> name, caller_phone |-> cphone, phone_number |-> phone,
     account_action |-> action, additional_info |-> info]

ValidRequest == Request(JohnDoe, Phone1, Phone2, TestAction, None)

\* What the submit handler is offered: the valid request, the one of
\* test_create_call_validation_error, a whitespace-only action.
SubmitRequests == {
    ValidRequest,
    Request(EmptyStr, BadPhoneWord, Phone2, TestAction, None),
    Request(JohnDoe, Phone1, Phone2, BlankStr, None)
}

\* The inputs of the validators.
NameValues == {None, EmptyStr, BlankStr, JohnDoe, Repeat("x", MaxNameLen + 1)}
PhoneValues == {None, EmptyStr, BlankStr, Phone1, BadPhoneWord, BadPhoneShort}
ActionValues == {None, EmptyStr, BlankStr, TestAction, Repeat("x", MaxActionLen + 1)}
InfoValues == {None, Repeat("x", MaxInfoLen + 1)}

NotRun == << <<"not run">> >>

-----------------------------------------------------------------------------
(* The store: CallDatabase (app.py) and DatabaseService (core/database.py) *)

CallId == "call-1"

\* Call(id, request): the defaults of a new Call.
NewCall(request) ==
    [request |-> request, status |-> "pending", synthflow_call_id |-> None,
     completed_at |-> None, duration |-> None, transcript |-> None,
     success |-> None, error_message |-> None]

\* The row CallDatabase.save_call inserts for the monolith's call_data.
NewCallV1(request) ==
    [request |-> request, status |-> "initiating", synthflow_call_id |-> EmptyStr,
     completed_at |-> None, duration |-> None, transcript |-> None,
     success |-> None, error_message |-> None]

\* A merge that forgets the error_message the partial does not give.
Merge_Forgetting(rec, updates) ==
    [f \in DOMAIN rec |->
        IF f \in DOMAIN updates THEN updates[f]
        ELSE IF f = "error_message" THEN None ELSE rec[f]]

\* The partial merge: the fields of updates overwrite, the others stay.
Merge(rec, updates) ==
    [f \in DOMAIN rec |-> IF f \in DOMAIN updates THEN updates[f] ELSE rec[f]]

\* An update that also stamps completed_at on the row, whatever the partial.
update_call_Stamping(st, id, updates) ==
    IF id \in DOMAIN st
    THEN [st EXCEPT ![id] = Merge(Merge(st[id], updates), ("completed_at" :> Now))]
    ELSE st

\* CallDatabase.update_call: UPDATE calls SET .. WHERE id = ? (no row, no change).
update_call(st, id, updates) ==
    IF id \in DOMAIN st THEN [st EXCEPT ![id] = Merge(st[id], updates)] ELSE st

\* DatabaseService.update_call(call_id, updates)
db_update_call(st, id, updates) ==
    IF id \in DOMAIN st THEN [st EXCEPT ![id] = Merge(st[id], updates)] ELSE st

\* An insert that replaces the row of an id already there.
save_call_Replacing(st, id, rec) == (id :> rec) @@ st

\* DatabaseService.save_call / CallDatabase.save_call: a new row; an id
\* already there is refused.
save_call(st, id, rec) ==
    IF id \in DOMAIN st THEN st ELSE (id :> rec) @@ st

\* CallService._update_call_status: error_message and completed_at are
\* written only when truthy.
StatusUpdates(status, error_message, completed_at) ==
    ("status" :> status)
    @@ (IF Truthy(error_message) THEN ("error_message" :> error_message) ELSE <<>>)
    @@ (IF Truthy(completed_at) THEN ("completed_at" :> completed_at) ELSE <<>>)

_update_call_status(st, id, status, error_message, completed_at) ==
    db_update_call(st, id, StatusUpdates(status, error_message, completed_at))

-----------------------------------------------------------------------------
(* State                                                                   *)

MaxPollsV2 == 24
MaxPollsV1 == 12
QueuePolls == 6
ErrorPolls == 3

MaxTerminates == 1

VARIABLES
    impl,               \* "v1": app.py; "v2": the src/ package
    running_loop,       \* v2: an asyncio event loop runs in the submitting thread
    store,              \* the calls table: call id -> record
    response,           \* the last answer given to a caller of the API
    pc,                 \* where the call's asynchronous processing stands
    poll_count,         \* the poll loop's poll_count
    last_status,        \* the monolith loop's last_status
    call_status,        \* the loop's call_status, kept across the transcript fetch
    status_result,      \* the loop's status_result, kept likewise
    synthflow_call_id,  \* the provider call id the loop polls
    create_result,      \* the processing's `result` of create_call
    queued_polls,       \* history: the polls in a row that reported 'queue'
    failed_polls,       \* history: the polls in a row that failed (counted up to ErrorPolls)
    returned,           \* the last direct call of a store operation and its return value
    emitted,            \* the statuses of the call_update events the last step emitted
    analyzed,           \* the transcript given to the success classifier
    verdict,            \* what the classifier returned for it
    phone,              \* the string given to validate_phone_number
    phone_valid,        \* what validate_phone_number returned for it
    polls_after_term,   \* history: get_call_status requests since terminate wrote
    poll_writes,        \* the record updates made on the last answer of get_call_status
    createCalls,        \* create_call requests issued
    statusCalls,        \* get_call_status requests issued
    transcriptCalls,    \* get_call_transcript requests issued
    term_pc,            \* where a terminate request stands
    term_seen,          \* the status terminate_call read
    terminates,         \* terminate requests begun
    term_from,          \* history: the status a successful terminate started from
    own_terminal,       \* history: the first terminal status the processing persisted
    own_last,           \* history: the status of the processing's latest write
    last_event,         \* history: the status of the latest call_update event emitted
    creating,           \* calls whose processing awaits the answer of create_call
    monitoring,         \* calls whose processing is in its poll loop
    ended,              \* calls whose processing has ended
    mig_pc,             \* the step the migration script's main() stands at
    exit_code,          \* what main() returned to sys.exit
    files,              \* the paths that exist in the migration's working directory
    faults,             \* the operations of the migration that will raise
    cleanup_pc,         \* where a cleanup sweep of the package stands
    stuck,              \* the sweep's stuck_calls: the ids it selected
    cleanups,           \* cleanup sweeps begun
    data,               \* the request under validation
    errors,             \* what validate_call_request returned for data
    errors_v1           \* what app.py's required-field check returned for data

validVars == <<data, errors, errors_v1>>
procVars == <<pc, poll_count, last_status, call_status, status_result, synthflow_call_id,
              create_result, queued_polls>>
provVars == <<createCalls, statusCalls, transcriptCalls>>
termVars == <<term_pc, term_seen, terminates, term_from>>
histVars == <<own_terminal, own_last>>
pureVars == <<analyzed, verdict, phone, phone_valid>>
obsVars == <<polls_after_term, poll_writes>>
cleanVars == <<cleanup_pc, stuck, cleanups>>
poolVars == <<creating, monitoring, ended>>
migVars == <<mig_pc, exit_code, files, faults>>
vars == <<impl, running_loop, store, response, procVars, provVars,
          termVars, histVars, validVars, failed_polls, returned, emitted, pureVars,
          obsVars, cleanVars, last_event, poolVars, migVars>>

NoRequest == Request(None, None, None, None, None)

NoResponse == [op |-> "none", code |-> "none", call_id |-> "none", request |-> NoRequest]

NoCreateResult == [kind |-> "none", call_id |-> None, error |-> None]

NoStatusResult == [kind |-> "none", status |-> NoStatus, duration |-> <<"0">>]

max_polls == IF impl = "v1" THEN MaxPollsV1 ELSE MaxPollsV2

\* Neither the classifier nor the phone check has been called directly.
InitPure ==
    /\ analyzed = None
    /\ verdict = None
    /\ phone = None
    /\ phone_valid = None

InitOrchestrator ==
    /\ store = <<>>
    /\ response = NoResponse
    /\ pc = "idle"
    /\ poll_count = 0
    /\ last_status = NoStatus
    /\ call_status = NoStatus
    /\ status_result = NoStatusResult
    /\ synthflow_call_id = None
    /\ create_result = NoCreateResult
    /\ queued_polls = 0
    /\ failed_polls = 0
    /\ polls_after_term = 0
    /\ poll_writes = 0
    /\ returned = [op |-> "none", call_id |-> "none", updates |-> <<>>, value |-> None]
    /\ emitted = <<>>
    /\ createCalls = 0
    /\ statusCalls = 0
    /\ transcriptCalls = 0
    /\ term_pc = "idle"
    /\ term_seen = NoStatus
    /\ terminates = 0
    /\ term_from = NoStatus
    /\ own_terminal = NoStatus
    /\ own_last = NoStatus
    /\ cleanup_pc = "idle"
    /\ stuck = {}
    /\ cleanups = 0
    /\ last_event = NoStatus
    /\ creating = 0
    /\ monitoring = 0
    /\ ended = 0

\* The migration script is not being run.
NoMigration ==
    /\ mig_pc = "start"
    /\ exit_code = None
    /\ files = {}
    /\ faults = {}

\* The history of the events: the status the latest call_update carried.
EventSeen ==
    last_event' = IF emitted' = <<>> THEN last_event ELSE emitted'[Len(emitted')]

Init ==
    /\ impl \in {"v1", "v2"}
    /\ running_loop \in BOOLEAN
    /\ impl = "v1" => running_loop = FALSE
    /\ InitOrchestrator
    /\ NoMigration
    /\ InitPure
    /\ data = ValidRequest
    /\ errors = NotRun
    /\ errors_v1 = NotRun

\* A write of the call's own processing: the history of what it persisted.
OwnWrite(status) ==
    /\ own_last' = status
    /\ own_terminal' = IF own_terminal = NoStatus /\ status \in OwnTerminalStatuses
                       THEN status ELSE own_terminal

-----------------------------------------------------------------------------
(* submit                                                                  *)

\* CallRequest.validate(): raises ValueError on an empty caller name, phone
\* number or account action.
request_validate(request) ==
    /\ Truthy(request.caller_name)
    /\ Truthy(request.phone_number)
    /\ Truthy(request.account_action)

\* CallService.initiate_call: validate, save, then asyncio.create_task, which
\* raises RuntimeError("no running event loop") when called outside a running
\* loop; the handler of that exception marks the call FAILED and returns
\* False.  The result is <<returned, store, task scheduled>>.
initiate_call(st, id, request, loop) ==
    IF ~request_validate(request)
    THEN <<FALSE, _update_call_status(st, id, "failed", <<"ValueError">>, None), FALSE>>
    ELSE IF id \in DOMAIN st
    THEN <<FALSE, st, FALSE>>
    ELSE IF ~loop
    THEN <<FALSE,
           _update_call_status(save_call(st, id, NewCall(request)), id, "failed",
                               <<"no running event loop">>, None),
           FALSE>>
    ELSE <<TRUE, save_call(st, id, NewCall(request)), TRUE>>

\* SubmitV2 without the validate_call_request gate: every body goes on to
\* initiate_call.
SubmitV2_Unvalidated(request) ==
    /\ impl = "v2"
    /\ CallId \notin DOMAIN store
    /\ LET r == initiate_call(store, CallId, request, running_loop)
       IN /\ store' = r[2]
          /\ pc' = IF r[3] THEN "scheduled" ELSE pc
          /\ response' = [op |-> "submit", code |-> IF r[1] THEN "200" ELSE "500",
                          call_id |-> IF r[1] THEN CallId ELSE "none",
                          request |-> request]
    /\ emitted' = <<>>
    /\ EventSeen
    /\ UNCHANGED <<impl, running_loop, migVars, poolVars, cleanVars, pureVars, obsVars, returned, failed_polls, poll_count, last_status, call_status,
                   status_result, synthflow_call_id, create_result, queued_polls,
                   provVars, termVars, histVars, validVars>>

\* routes.py create_call (POST /api/calls of the package).  The id is a fresh
\* uuid: the behaviour follows the requests up to the one that is stored under
\* CallId.
SubmitV2(request) ==
    /\ impl = "v2"
    /\ CallId \notin DOMAIN store
    /\ IF validate_call_request(request) # <<>>
       THEN /\ response' = [op |-> "submit", code |-> "400", call_id |-> "none",
                             request |-> request]
            /\ UNCHANGED <<store, pc>>
       ELSE LET r == initiate_call(store, CallId, request, running_loop)
               IN /\ store' = r[2]
                  /\ pc' = IF r[3] THEN "scheduled" ELSE pc
                  /\ response' = IF r[1]
                                 THEN [op |-> "submit", code |-> "200", call_id |-> CallId,
                                       request |-> request]
                                 ELSE [op |-> "submit", code |-> "500", call_id |-> "none",
                                       request |-> request]
    /\ emitted' = <<>>
    /\ EventSeen
    /\ UNCHANGED <<impl, running_loop, migVars, poolVars, cleanVars, pureVars, obsVars, returned, failed_polls, poll_count, last_status, call_status,
                   status_result, synthflow_call_id, create_result, queued_polls,
                   provVars, termVars, histVars, validVars>>

\* app.py create_call (POST /api/calls of the monolith)
SubmitV1(request) ==
    /\ impl = "v1"
    /\ CallId \notin DOMAIN store
    /\ IF create_call_check(request, 1) # <<>>
       THEN /\ response' = [op |-> "submit", code |-> "400", call_id |-> "none",
                             request |-> request]
            /\ UNCHANGED <<store, pc>>
       ELSE /\ store' = save_call(store, CallId, NewCallV1(request))
            /\ pc' = "scheduled"
            /\ response' = [op |-> "submit", code |-> "200", call_id |-> CallId,
                                       request |-> request]
    /\ emitted' = <<>>
    /\ EventSeen
    /\ UNCHANGED <<impl, running_loop, migVars, poolVars, cleanVars, pureVars, obsVars, returned, failed_polls, poll_count, last_status, call_status,
                   status_result, synthflow_call_id, create_result, queued_polls,
                   provVars, termVars, histVars, validVars>>

-----------------------------------------------------------------------------
(* CallService._process_call_async and _monitor_call_progress (v2)         *)

\* A loop test that lets one more iteration through.
LoopCheck_OneMore(count) == IF count <= max_polls THEN "sleeping" ELSE "after_loop"

\* `while poll_count < max_polls`: back to the sleep, or out of the loop.
LoopCheck(count) == IF count < max_polls THEN "sleeping" ELSE "after_loop"

\* CreationErrorText losing the text: an exception whose str() is empty.
CreationErrorText_Lost(r) == EmptyStr

\* str(e) in _process_call_async's handler: the SynthflowAPIException it
\* raised itself on a refused creation, or the client's own exception.
CreationErrorText(r) ==
    IF r.kind = "error" THEN <<"Call creation failed: ">> \o r.error ELSE r.error

\* CallService._extract_call_status: CallStatus(calls[0].status), FAILED on a
\* string that is no CallStatus value (ValueError); without response.calls
\* the top-level status ("ok", or absent) is no member and gives FAILED.
_extract_call_status(r) ==
    IF r.kind = "calls"
    THEN (IF r.status \in CallStatus THEN r.status ELSE "failed")
    ELSE "failed"

\* _process_call_async up to the await of client.create_call
ProcessStartV2 ==
    /\ impl = "v2"
    /\ pc = "scheduled"
    /\ store' = _update_call_status(store, CallId, "initiating", None, None)
    /\ OwnWrite("initiating")
    /\ createCalls' = createCalls + 1
    /\ pc' = "creating"
    /\ emitted' = <<>>
    /\ EventSeen
    /\ UNCHANGED <<impl, running_loop, migVars, poolVars, cleanVars, pureVars, obsVars, returned, failed_polls, response, poll_count, last_status,
                   call_status, status_result, synthflow_call_id, create_result,
                   queued_polls, statusCalls, transcriptCalls, termVars, validVars>>

\* _process_call_async from the answer of create_call to the poll loop's
\* first sleep, or through its exception handler
CreateResultV2(r) ==
    /\ impl = "v2"
    /\ pc = "creating"
    /\ IF r.kind = "ok"
       THEN /\ store' = db_update_call(store, CallId,
                            ("status" :> "dialing") @@ ("synthflow_call_id" :> r.call_id))
            /\ OwnWrite("dialing")
            /\ synthflow_call_id' = r.call_id
            /\ poll_count' = 0
            /\ pc' = LoopCheck(0)
       ELSE /\ store' = _update_call_status(store, CallId, "failed",
                                            CreationErrorText(r), Now)
            /\ OwnWrite("failed")
            /\ pc' = "done"
            /\ UNCHANGED <<synthflow_call_id, poll_count>>
    /\ create_result' = r
    /\ emitted' = <<>>
    /\ EventSeen
    /\ UNCHANGED <<impl, running_loop, migVars, poolVars, cleanVars, pureVars, obsVars, returned, failed_polls, response, last_status, call_status,
                   status_result, queued_polls, provVars, termVars, validVars>>

\* History: the length of the run of polls that reported 'queue', this one
\* included.
QueuedRun(r) ==
    IF r.kind = "calls" /\ r.status = "queue" THEN queued_polls + 1 ELSE 0

\* History: the length of the run of failed polls, this one included, counted
\* up to ErrorPolls.
FailedRun(r) ==
    IF r.kind # "error" THEN 0
    ELSE IF failed_polls < ErrorPolls THEN failed_polls + 1 ELSE ErrorPolls

MaxPollsAfterTerminate == 2

\* History: the get_call_status requests made since a terminate wrote
\* 'terminated' to the record, this one included, counted up to
\* MaxPollsAfterTerminate.
PollsAfterTerminate ==
    IF term_from = NoStatus THEN 0
    ELSE IF polls_after_term < MaxPollsAfterTerminate THEN polls_after_term + 1
    ELSE MaxPollsAfterTerminate

\* Both loops: the sleep ends, poll_count += 1, get_call_status is requested.
PollRequest ==
    /\ pc = "sleeping"
    /\ poll_count' = poll_count + 1
    /\ statusCalls' = statusCalls + 1
    /\ pc' = "polling"
    /\ polls_after_term' = PollsAfterTerminate
    /\ emitted' = <<>>
    /\ EventSeen
    /\ UNCHANGED <<impl, running_loop, migVars, poolVars, cleanVars, pureVars, poll_writes, returned, failed_polls, store, response, last_status,
                   call_status, status_result, synthflow_call_id, create_result,
                   queued_polls, createCalls, transcriptCalls, termVars, histVars,
                   validVars>>

\* _monitor_call_progress from the answer of get_call_status to the next
\* await: the sleep, the transcript fetch, or the end of the loop
PollResponseV2(r) ==
    /\ impl = "v2"
    /\ pc = "polling"
    /\ IF r.kind = "error"
       THEN /\ pc' = LoopCheck(poll_count)
            /\ poll_writes' = 0
            /\ UNCHANGED <<store, call_status, transcriptCalls, histVars>>
       ELSE LET cs == _extract_call_status(r)
            IN /\ store' = _update_call_status(store, CallId, cs, None, None)
               /\ OwnWrite(cs)
               /\ poll_writes' = 1
               /\ call_status' = cs
               /\ IF cs \in FinishedStatuses
                  THEN /\ transcriptCalls' = transcriptCalls + 1
                       /\ pc' = "transcript"
                  ELSE /\ pc' = LoopCheck(poll_count)
                       /\ UNCHANGED transcriptCalls
    /\ queued_polls' = QueuedRun(r)
    /\ failed_polls' = FailedRun(r)
    /\ emitted' = <<>>
    /\ EventSeen
    /\ UNCHANGED <<impl, running_loop, migVars, poolVars, cleanVars, pureVars, polls_after_term, returned, response, poll_count, last_status,
                   status_result, synthflow_call_id, create_result, createCalls,
                   statusCalls, termVars, validVars>>

\* A final update that gives the call up when the transcript cannot be had.
TranscriptResponseV2_Fatal(t) ==
    /\ impl = "v2"
    /\ pc = "transcript"
    /\ store' = IF t.kind = "ok"
                THEN db_update_call(store, CallId,
                        ("status" :> call_status) @@ ("completed_at" :> Now)
                        @@ ("transcript" :> t.transcript)
                        @@ ("success" :> PyBool(_analyze_call_success(t.transcript))))
                ELSE _update_call_status(store, CallId, "failed",
                                         <<"transcript unavailable">>, Now)
    /\ OwnWrite(IF t.kind = "ok" THEN call_status ELSE "failed")
    /\ pc' = "after_loop"
    /\ emitted' = <<>>
    /\ EventSeen
    /\ UNCHANGED <<impl, running_loop, migVars, poolVars, cleanVars, pureVars, obsVars, returned, failed_polls,
                   response, poll_count, last_status, call_status, status_result,
                   synthflow_call_id, create_result, queued_polls, provVars, termVars,
                   validVars>>

\* _get_call_transcript's result, the final update, break
TranscriptResponseV2(t) ==
    /\ impl = "v2"
    /\ pc = "transcript"
    /\ LET transcript == IF t.kind = "ok" THEN t.transcript ELSE EmptyStr
       IN store' = db_update_call(store, CallId,
                        ("status" :> call_status) @@ ("completed_at" :> Now)
                        @@ ("transcript" :> transcript)
                        @@ ("success" :> PyBool(_analyze_call_success(transcript))))
    /\ OwnWrite(call_status)
    /\ pc' = "after_loop"
    /\ emitted' = <<>>
    /\ EventSeen
    /\ UNCHANGED <<impl, running_loop, migVars, poolVars, cleanVars, pureVars, obsVars, returned, failed_polls, response, poll_count, last_status,
                   call_status, status_result, synthflow_call_id, create_result,
                   queued_polls, provVars, termVars, validVars>>

\* "Handle timeout": `if poll_count >= max_polls` after the loop
AfterLoopV2 ==
    /\ impl = "v2"
    /\ pc = "after_loop"
    /\ IF poll_count >= max_polls
       THEN /\ store' = _update_call_status(store, CallId, "failed",
                                            <<"Monitoring timeout">>, Now)
            /\ OwnWrite("failed")
       ELSE UNCHANGED <<store, histVars>>
    /\ pc' = "done"
    /\ emitted' = <<>>
    /\ EventSeen
    /\ UNCHANGED <<impl, running_loop, migVars, poolVars, cleanVars, pureVars, obsVars, returned, failed_polls, response, poll_count, last_status,
                   call_status, status_result, synthflow_call_id, create_result,
                   queued_polls, provVars, termVars, validVars>>

-----------------------------------------------------------------------------
(* app.py initiate_call_async and monitor_call_progress (v1)               *)

StuckInQueue == <<"Call stuck in queue - likely missing phone number or account issue">>

\* The status the monolith's loop reads: calls[0].status under
\* status_result['response'], 'unknown' without it.
ExtractStatusV1(r) == IF r.kind = "calls" THEN r.status ELSE "unknown"

\* `if call_status == 'queue' and poll_count >= 6`
QueueRuleFires(status, count) == status = "queue" /\ count >= QueuePolls

\* initiate_call_async up to the call of synthflow_async.create_call
ProcessStartV1 ==
    /\ impl = "v1"
    /\ pc = "scheduled"
    /\ store' = update_call(store, CallId, ("status" :> "checking_phone_config"))
    /\ OwnWrite("checking_phone_config")
    /\ createCalls' = createCalls + 1
    /\ pc' = "creating"
    /\ emitted' = <<"checking_phone_config">>
    /\ EventSeen
    /\ UNCHANGED <<impl, running_loop, migVars, poolVars, cleanVars, pureVars, obsVars, returned, failed_polls, response, poll_count, last_status,
                   call_status, status_result, synthflow_call_id, create_result,
                   queued_polls, statusCalls, transcriptCalls, termVars, validVars>>

\* initiate_call_async from create_call's result: failed on an error,
\* "initiated" with the provider id and into monitor_call_progress, or failed
\* for want of a usable id
CreateResultV1(r) ==
    /\ impl = "v1"
    /\ pc = "creating"
    /\ r.kind \in {"ok", "error"}
    /\ IF r.kind = "error"
       THEN /\ store' = update_call(store, CallId,
                            ("status" :> "failed") @@ ("error_message" :> r.error)
                            @@ ("completed_at" :> Now))
            /\ OwnWrite("failed")
            /\ emitted' = <<"failed">>
            /\ pc' = "done"
            /\ UNCHANGED <<synthflow_call_id, poll_count, last_status>>
       ELSE LET initiated == update_call(store, CallId,
                                ("status" :> "initiated")
                                @@ ("synthflow_call_id" :> r.call_id))
            IN /\ synthflow_call_id' = r.call_id
               /\ IF Truthy(r.call_id) /\ r.call_id # UnknownId
                  THEN /\ store' = initiated
                       /\ OwnWrite("initiated")
                       /\ emitted' = <<"initiated">>
                       /\ poll_count' = 0
                       /\ last_status' = NoStatus
                       /\ pc' = LoopCheck(0)
                  ELSE /\ store' = update_call(initiated, CallId,
                                       ("status" :> "failed")
                                       @@ ("error_message" :>
                                             <<"No valid call ID returned from Synthflow">>)
                                       @@ ("completed_at" :> Now))
                       /\ OwnWrite("failed")
                       /\ emitted' = <<"initiated", "failed">>
                       /\ pc' = "done"
                       /\ UNCHANGED <<poll_count, last_status>>
    /\ create_result' = r
    /\ EventSeen
    /\ UNCHANGED <<impl, running_loop, migVars, poolVars, cleanVars, pureVars, obsVars, returned, failed_polls, response, call_status, status_result,
                   queued_polls, provVars, termVars, validVars>>

\* "Only emit updates if status actually changed": the call_update the loop
\* emits for a polled status that differs from last_status.
StatusChange(cs) == IF cs # last_status THEN <<cs>> ELSE <<>>

\* monitor_call_progress from the result of get_call_status to the next
\* wait: an error result continues (or breaks once poll_count > 3); a
\* finished status goes on to the transcript; 'queue' at poll 6 or later
\* fails the call and breaks
PollResponseV1(r) ==
    /\ impl = "v1"
    /\ pc = "polling"
    /\ IF r.kind = "error"
       THEN /\ pc' = IF poll_count > ErrorPolls THEN "after_loop" ELSE LoopCheck(poll_count)
            /\ emitted' = <<>>
            /\ poll_writes' = 0
            /\ UNCHANGED <<store, last_status, call_status, status_result,
                           transcriptCalls, histVars>>
       ELSE LET cs == ExtractStatusV1(r)
            IN /\ last_status' = cs
               /\ call_status' = cs
               /\ status_result' = r
               /\ emitted' = StatusChange(cs)
                               \o (IF cs \notin FinishedStatuses /\ QueueRuleFires(cs, poll_count)
                                   THEN <<"failed">> ELSE <<>>)
               /\ IF cs \in FinishedStatuses
                  THEN /\ transcriptCalls' = transcriptCalls + 1
                       /\ pc' = "transcript"
                       /\ poll_writes' = 0
                       /\ UNCHANGED <<store, histVars>>
                  ELSE IF QueueRuleFires(cs, poll_count)
                  THEN /\ store' = update_call(store, CallId,
                                       ("status" :> "failed")
                                       @@ ("error_message" :> StuckInQueue)
                                       @@ ("completed_at" :> Now))
                       /\ OwnWrite("failed")
                       /\ poll_writes' = 1
                       /\ pc' = "after_loop"
                       /\ UNCHANGED transcriptCalls
                  ELSE /\ pc' = LoopCheck(poll_count)
                       /\ poll_writes' = 0
                       /\ UNCHANGED <<store, transcriptCalls, histVars>>
    /\ queued_polls' = QueuedRun(r)
    /\ failed_polls' = FailedRun(r)
    /\ EventSeen
    /\ UNCHANGED <<impl, running_loop, migVars, poolVars, cleanVars, pureVars, polls_after_term, returned, response, poll_count, synthflow_call_id,
                   create_result, createCalls, statusCalls, termVars, validVars>>

\* get_call_transcript's result, the final update, break
TranscriptResponseV1(t) ==
    /\ impl = "v1"
    /\ pc = "transcript"
    /\ LET transcript == IF t.kind = "ok" THEN t.transcript ELSE EmptyStr
       IN store' = update_call(store, CallId,
                        ("status" :> call_status) @@ ("completed_at" :> Now)
                        @@ ("duration" :> status_result.duration)
                        @@ ("transcript" :> transcript)
                        @@ ("success" :> PyBool(analyze_call_success(transcript))))
    /\ OwnWrite(call_status)
    /\ pc' = "after_loop"
    /\ emitted' = <<call_status>>
    /\ EventSeen
    /\ UNCHANGED <<impl, running_loop, migVars, poolVars, cleanVars, pureVars, obsVars, returned, failed_polls, response, poll_count, last_status,
                   call_status, status_result, synthflow_call_id, create_result,
                   queued_polls, provVars, termVars, validVars>>

\* "If polling completed without resolution, mark as timeout"
AfterLoopV1 ==
    /\ impl = "v1"
    /\ pc = "after_loop"
    /\ IF poll_count >= max_polls /\ last_status \notin FinishedStatuses
       THEN /\ store' = update_call(store, CallId,
                            ("status" :> "timeout")
                            @@ ("error_message" :> <<"Call monitoring timeout">>)
                            @@ ("completed_at" :> Now))
            /\ OwnWrite("timeout")
            /\ emitted' = <<"timeout">>
       ELSE /\ emitted' = <<>>
            /\ UNCHANGED <<store, histVars>>
    /\ pc' = "done"
    /\ EventSeen
    /\ UNCHANGED <<impl, running_loop, migVars, poolVars, cleanVars, pureVars, obsVars, returned, failed_polls, response, poll_count, last_status,
                   call_status, status_result, synthflow_call_id, create_result,
                   queued_polls, provVars, termVars, validVars>>

-----------------------------------------------------------------------------
(* terminate                                                               *)

\* CallService.terminate_call up to its status check: get_call, not found or
\* not active returns False (routes.py answers 500)
TerminateCheckV2 ==
    /\ impl = "v2"
    /\ term_pc = "idle"
    /\ terminates < MaxTerminates
    /\ terminates' = terminates + 1
    /\ IF CallId \in DOMAIN store /\ store[CallId].status \in ActiveStatuses
       THEN /\ term_pc' = "checked"
            /\ term_seen' = store[CallId].status
            /\ UNCHANGED response
       ELSE /\ response' = [op |-> "terminate", code |-> "500", call_id |-> CallId,
                             request |-> NoRequest]
            /\ UNCHANGED <<term_pc, term_seen>>
    /\ emitted' = <<>>
    /\ EventSeen
    /\ UNCHANGED <<impl, running_loop, migVars, poolVars, cleanVars, pureVars, obsVars, returned, failed_polls, store, procVars, provVars, term_from,
                   histVars, validVars>>

\* CallService.terminate_call from the update to its return
TerminateWriteV2 ==
    /\ impl = "v2"
    /\ term_pc = "checked"
    /\ store' = db_update_call(store, CallId,
                    ("status" :> "terminated") @@ ("completed_at" :> Now))
    /\ term_from' = term_seen
    /\ term_pc' = "idle"
    /\ response' = [op |-> "terminate", code |-> "200", call_id |-> CallId,
                    request |-> NoRequest]
    /\ polls_after_term' = 0
    /\ emitted' = <<>>
    /\ EventSeen
    /\ UNCHANGED <<impl, running_loop, migVars, poolVars, cleanVars, pureVars, poll_writes, returned, failed_polls, procVars, provVars, term_seen,
                   terminates, histVars, validVars>>

\* app.py terminate_call: SynthflowAPI.terminate_call always answers success,
\* and the row is updated whatever its status
TerminateV1 ==
    /\ impl = "v1"
    /\ terminates < MaxTerminates
    /\ terminates' = terminates + 1
    /\ term_seen' = IF CallId \in DOMAIN store THEN store[CallId].status ELSE NoStatus
    /\ term_from' = term_seen'
    /\ store' = update_call(store, CallId,
                    ("status" :> "terminated") @@ ("completed_at" :> Now))
    /\ response' = [op |-> "terminate", code |-> "200", call_id |-> CallId,
                    request |-> NoRequest]
    /\ polls_after_term' = 0
    /\ emitted' = <<"terminated">>
    /\ EventSeen
    /\ UNCHANGED <<impl, running_loop, migVars, poolVars, cleanVars, pureVars, poll_writes, returned, failed_polls, procVars, provVars, term_pc,
                   histVars, validVars>>

-----------------------------------------------------------------------------
(* The specification of the call lifecycle                                 *)

Next ==
    \/ \E request \in SubmitRequests : SubmitV2(request)
    \/ \E request \in SubmitRequests : SubmitV1(request)
    \/ ProcessStartV2
    \/ \E r \in CreateResults : CreateResultV2(r)
    \/ PollRequest
    \/ \E r \in StatusResults : PollResponseV2(r)
    \/ \E t \in TranscriptResults : TranscriptResponseV2(t)
    \/ AfterLoopV2
    \/ ProcessStartV1
    \/ \E r \in CreateResults : CreateResultV1(r)
    \/ \E r \in StatusResults : PollResponseV1(r)
    \/ \E t \in TranscriptResults : TranscriptResponseV1(t)
    \/ AfterLoopV1
    \/ TerminateCheckV2
    \/ TerminateWriteV2
    \/ TerminateV1

Spec == Init /\ [][Next]_vars

\* The steps of the call's own processing: each sleep ends, and each request
\* to the provider is answered or fails within its timeout.
Processing ==
    \/ ProcessStartV2
    \/ \E r \in CreateResults : CreateResultV2(r)
    \/ PollRequest
    \/ \E r \in StatusResults : PollResponseV2(r)
    \/ \E t \in TranscriptResults : TranscriptResponseV2(t)
    \/ AfterLoopV2
    \/ ProcessStartV1
    \/ \E r \in CreateResults : CreateResultV1(r)
    \/ \E r \in StatusResults : PollResponseV1(r)
    \/ \E t \in TranscriptResults : TranscriptResponseV1(t)
    \/ AfterLoopV1

-----------------------------------------------------------------------------
(* The specification of the validators: every request body, each validator *)
(* applied to it                                                           *)

InitValidate ==
    /\ impl = "v2"
    /\ running_loop = FALSE
    /\ InitOrchestrator
    /\ NoMigration
    /\ InitPure
    /\ data \in [caller_name : NameValues, caller_phone : PhoneValues,
                 phone_number : PhoneValues, account_action : ActionValues,
                 additional_info : InfoValues]
    /\ errors = NotRun
    /\ errors_v1 = NotRun

\* errors = validate_call_request(data)   (routes.py create_call)
ApplyValidateCallRequest ==
    /\ errors = NotRun
    /\ errors' = validate_call_request(data)
    /\ emitted' = <<>>
    /\ EventSeen
    /\ UNCHANGED <<impl, running_loop, migVars, poolVars, cleanVars, pureVars, obsVars, returned, failed_polls, store, response, procVars,
                   provVars, termVars,
                   histVars, data, errors_v1>>

\* the required-field loop of app.py create_call
ApplyCreateCallCheck ==
    /\ errors_v1 = NotRun
    /\ errors_v1' = create_call_check(data, 1)
    /\ emitted' = <<>>
    /\ EventSeen
    /\ UNCHANGED <<impl, running_loop, migVars, poolVars, cleanVars, pureVars, obsVars, returned, failed_polls, store, response, procVars,
                   provVars, termVars,
                   histVars, data, errors>>

NextValidate == ApplyValidateCallRequest \/ ApplyCreateCallCheck

SpecValidate == InitValidate /\ [][NextValidate]_vars

-----------------------------------------------------------------------------
(* The store operations called directly: CallDatabase (app.py), the        *)
(* DatabaseService the package calls, and the cleanup sweeps               *)

StaleMinutes == 30
StaleMinutesV1 == 30

OtherId == "call-2"
StoreIds == {CallId, OtherId}

\* created_at, in minutes on a clock whose 0 is the moment of the sweep.
CreatedAts == {0 - 40, 0 - 30, 0 - 5}

\* datetime.now() - timedelta(minutes=30)
cutoff_time == 0 - StaleMinutes

CleanupMessage == <<"Call timeout - automatically cleaned up">>

\* The row a save inserts: the new call with the status given, created then.
StoreRecord(status, created) ==
    ("created_at" :> created)
    @@ [(IF impl = "v1" THEN NewCallV1(ValidRequest) ELSE NewCall(ValidRequest))
            EXCEPT !.status = status]

SaveStatuses == {"pending", "in_progress", "completed"}

\* The partials update_call is given.
Partials == {
    <<>>,
    ("status" :> "initiating"),
    ("transcript" :> UnableTo) @@ ("success" :> PyFalse)
}

\* What the caller of a store operation gets back
Returned(op, id, updates, value) ==
    [op |-> op, call_id |-> id, updates |-> updates, value |-> value]

\* save_call's return: False when the INSERT fails on the primary key.
save_call_returns(st, id) == PyBool(id \notin DOMAIN st)

\* CallDatabase.update_call's return: True when the UPDATE ran, whether or
\* not a row has the id; False when it raised (no SET clause: a syntax error).
update_call_returns(st, id, updates) == PyBool(updates # <<>>)

\* DatabaseService.update_call's return: False for an id the store lacks.
db_update_call_returns(st, id, updates) == PyBool(id \in DOMAIN st)

\* save_call(call_data) / DatabaseService.save_call(call)
SaveCall(id, status, created) ==
    /\ store' = save_call(store, id, StoreRecord(status, created))
    /\ returned' = Returned("save", id, <<>>, save_call_returns(store, id))
    /\ emitted' = <<>>
    /\ EventSeen
    /\ UNCHANGED <<impl, running_loop, migVars, poolVars, cleanVars, pureVars, obsVars, response, procVars, provVars, termVars,
                   histVars, validVars, failed_polls>>

\* update_call(call_id, updates)
UpdateCall(id, updates) ==
    /\ IF impl = "v1"
       THEN /\ store' = update_call(store, id, updates)
            /\ returned' = Returned("update", id, updates,
                                     update_call_returns(store, id, updates))
       ELSE /\ store' = db_update_call(store, id, updates)
            /\ returned' = Returned("update", id, updates,
                                     db_update_call_returns(store, id, updates))
    /\ emitted' = <<>>
    /\ EventSeen
    /\ UNCHANGED <<impl, running_loop, migVars, poolVars, cleanVars, pureVars, obsVars, response, procVars, provVars, termVars,
                   histVars, validVars, failed_polls>>

\* GET /api/calls/<call_id>: 404 when get_call finds no row
GetCall(id) ==
    /\ returned' = Returned("get", id, <<>>,
                             IF id \in DOMAIN store THEN <<"200">> ELSE <<"404">>)
    /\ emitted' = <<>>
    /\ EventSeen
    /\ UNCHANGED <<impl, running_loop, migVars, poolVars, cleanVars, pureVars, obsVars, store, response, procVars, provVars,
                   termVars, histVars, validVars, failed_polls>>

\* CallService.cleanup_stuck_calls: the calls it selects
stuck_calls(st) ==
    {id \in DOMAIN st :
        /\ st[id].status \in {"dialing", "in_progress", "initiating"}
        /\ st[id].created_at < cutoff_time}

\* CallService.cleanup_stuck_calls: the store after its updates
cleanup_stuck_calls(st) ==
    [id \in DOMAIN st |->
        IF id \in stuck_calls(st)
        THEN Merge(st[id], ("status" :> "failed")
                           @@ ("error_message" :> CleanupMessage)
                           @@ ("completed_at" :> Now))
        ELSE st[id]]

\* app.py cleanup_stuck_calls: the rows its UPDATE matches
stuck_rows(st) ==
    {id \in DOMAIN st :
        /\ st[id].status \in {"in_progress", "dialing"}
        /\ st[id].created_at < 0 - StaleMinutesV1}

\* app.py cleanup_stuck_calls: the table after its UPDATE
cleanup_rows(st) ==
    [id \in DOMAIN st |->
        IF id \in stuck_rows(st)
        THEN Merge(st[id], ("status" :> "timeout") @@ ("completed_at" :> Now))
        ELSE st[id]]

\* POST /api/calls/cleanup of the package: the count of calls updated
CleanupV2 ==
    /\ impl = "v2"
    /\ store' = cleanup_stuck_calls(store)
    /\ returned' = Returned("cleanup", "none", <<>>,
                             <<ToString(Cardinality(stuck_calls(store)))>>)
    /\ emitted' = <<>>
    /\ EventSeen
    /\ UNCHANGED <<impl, running_loop, migVars, poolVars, cleanVars, pureVars, obsVars, response, procVars, provVars, termVars,
                   histVars, validVars, failed_polls>>

\* POST /api/calls/cleanup of the monolith: cursor.rowcount
CleanupV1 ==
    /\ impl = "v1"
    /\ store' = cleanup_rows(store)
    /\ returned' = Returned("cleanup", "none", <<>>,
                             <<ToString(Cardinality(stuck_rows(store)))>>)
    /\ emitted' = <<>>
    /\ EventSeen
    /\ UNCHANGED <<impl, running_loop, migVars, poolVars, cleanVars, pureVars, obsVars, response, procVars, provVars, termVars,
                   histVars, validVars, failed_polls>>

InitStore ==
    /\ impl \in {"v1", "v2"}
    /\ running_loop = FALSE
    /\ InitOrchestrator
    /\ NoMigration
    /\ InitPure
    /\ data = ValidRequest
    /\ errors = NotRun
    /\ errors_v1 = NotRun

NextStore ==
    \/ \E id \in StoreIds, status \in SaveStatuses, created \in CreatedAts :
            SaveCall(id, status, created)
    \/ \E id \in StoreIds, updates \in Partials : UpdateCall(id, updates)
    \/ \E id \in StoreIds : GetCall(id)
    \/ CleanupV2
    \/ CleanupV1
    \/ TerminateCheckV2
    \/ TerminateWriteV2
    \/ TerminateV1

SpecStore == InitStore /\ [][NextStore]_vars

-----------------------------------------------------------------------------
(* The package's cleanup sweep alongside a call's processing               *)

MaxCleanups == 1

\* CallService.cleanup_stuck_calls up to the end of its scan: get_calls, then
\* the calls in a swept status whose created_at is before the cutoff. The
\* call's age is the clock's to decide: `old' is created_at < cutoff_time.
stuck_in(st, old) ==
    {id \in DOMAIN st :
        /\ st[id].status \in {"dialing", "in_progress", "initiating"}
        /\ old}

\* CallService.cleanup_stuck_calls: one update_call for each call selected
fail_stuck(st, ids) ==
    [id \in DOMAIN st |->
        IF id \in ids
        THEN Merge(st[id], ("status" :> "failed")
                           @@ ("error_message" :> CleanupMessage)
                           @@ ("completed_at" :> Now))
        ELSE st[id]]

CleanupScanV2 ==
    /\ impl = "v2"
    /\ cleanup_pc = "idle"
    /\ cleanups < MaxCleanups
    /\ cleanups' = cleanups + 1
    /\ \E old \in BOOLEAN : stuck' = stuck_in(store, old)
    /\ cleanup_pc' = "scanned"
    /\ emitted' = <<>>
    /\ EventSeen
    /\ UNCHANGED <<impl, running_loop, migVars, poolVars, pureVars, obsVars, returned, failed_polls, store,
                   response, procVars, provVars, termVars, histVars, validVars>>

CleanupUpdateV2 ==
    /\ impl = "v2"
    /\ cleanup_pc = "scanned"
    /\ store' = fail_stuck(store, stuck)
    /\ returned' = Returned("cleanup", "none", <<>>, <<ToString(Cardinality(stuck))>>)
    /\ cleanup_pc' = "idle"
    /\ stuck' = {}
    /\ emitted' = <<>>
    /\ EventSeen
    /\ UNCHANGED <<impl, running_loop, migVars, poolVars, pureVars, obsVars, failed_polls, cleanups,
                   response, procVars, provVars, termVars, histVars, validVars>>

InitCleanup ==
    /\ Init
    /\ impl = "v2"

NextCleanup ==
    \/ \E request \in SubmitRequests : SubmitV2(request)
    \/ ProcessStartV2
    \/ \E r \in CreateResults : CreateResultV2(r)
    \/ PollRequest
    \/ \E r \in StatusResults : PollResponseV2(r)
    \/ \E t \in TranscriptResults : TranscriptResponseV2(t)
    \/ AfterLoopV2
    \/ CleanupScanV2
    \/ CleanupUpdateV2

SpecCleanup == InitCleanup /\ [][NextCleanup]_vars

-----------------------------------------------------------------------------
(* The monolith's writers step by step: the monitor thread's final update  *)
(* and its emit, the terminate handler's update and its emit, each a call  *)
(* of its own that the other thread can run between                        *)

\* monitor_call_progress: get_call_transcript's result and db.update_call
FinalUpdateV1(t) ==
    /\ impl = "v1"
    /\ pc = "transcript"
    /\ LET transcript == IF t.kind = "ok" THEN t.transcript ELSE EmptyStr
       IN store' = update_call(store, CallId,
                        ("status" :> call_status) @@ ("completed_at" :> Now)
                        @@ ("duration" :> status_result.duration)
                        @@ ("transcript" :> transcript)
                        @@ ("success" :> PyBool(analyze_call_success(transcript))))
    /\ OwnWrite(call_status)
    /\ pc' = "final_emit"
    /\ emitted' = <<>>
    /\ EventSeen
    /\ UNCHANGED <<impl, running_loop, migVars, poolVars, cleanVars, pureVars, obsVars, returned, failed_polls, response, poll_count, last_status,
                   call_status, status_result, synthflow_call_id, create_result,
                   queued_polls, provVars, termVars, validVars>>

\* monitor_call_progress: "Emit final update", break
FinalEmitV1 ==
    /\ impl = "v1"
    /\ pc = "final_emit"
    /\ pc' = "after_loop"
    /\ emitted' = <<call_status>>
    /\ EventSeen
    /\ UNCHANGED <<impl, running_loop, migVars, poolVars, cleanVars, pureVars, obsVars, returned, failed_polls, response, poll_count, last_status,
                   call_status, status_result, synthflow_call_id, create_result,
                   queued_polls, provVars, termVars, validVars, store, histVars>>

\* app.py terminate_call: synthflow.terminate_call and db.update_call
TerminateUpdateV1 ==
    /\ impl = "v1"
    /\ term_pc = "idle"
    /\ terminates < MaxTerminates
    /\ terminates' = terminates + 1
    /\ term_seen' = IF CallId \in DOMAIN store THEN store[CallId].status ELSE NoStatus
    /\ term_from' = term_seen'
    /\ store' = update_call(store, CallId,
                    ("status" :> "terminated") @@ ("completed_at" :> Now))
    /\ term_pc' = "written"
    /\ polls_after_term' = 0
    /\ emitted' = <<>>
    /\ EventSeen
    /\ UNCHANGED <<impl, running_loop, migVars, poolVars, cleanVars, pureVars, poll_writes, returned, failed_polls, procVars, provVars,
                   histVars, validVars, response>>

\* app.py terminate_call: socketio.emit and the answer
TerminateEmitV1 ==
    /\ impl = "v1"
    /\ term_pc = "written"
    /\ term_pc' = "idle"
    /\ response' = [op |-> "terminate", code |-> "200", call_id |-> CallId,
                    request |-> NoRequest]
    /\ emitted' = <<"terminated">>
    /\ EventSeen
    /\ UNCHANGED <<impl, running_loop, migVars, poolVars, cleanVars, pureVars, obsVars, returned, failed_polls, procVars, provVars,
                   histVars, validVars, store, term_seen, terminates, term_from>>

InitEmit ==
    /\ Init
    /\ impl = "v1"

NextEmit ==
    \/ \E request \in SubmitRequests : SubmitV1(request)
    \/ ProcessStartV1
    \/ \E r \in CreateResults : CreateResultV1(r)
    \/ PollRequest
    \/ \E r \in StatusResults : PollResponseV1(r)
    \/ \E t \in TranscriptResults : FinalUpdateV1(t)
    \/ FinalEmitV1
    \/ AfterLoopV1
    \/ TerminateUpdateV1
    \/ TerminateEmitV1

SpecEmit == InitEmit /\ [][NextEmit]_vars

-----------------------------------------------------------------------------
(* Many calls: how many are being processed at once                        *)

\* ThreadPoolExecutor(max_workers=10) of CallService.__init__
max_workers == 10

MaxCalls == 12

\* POST /api/calls with a valid body, for one more call: the monolith starts
\* a threading.Thread for it, the package an asyncio task (which needs the
\* running loop); neither asks how many are running, and the package's
\* _executor is given nothing to run.
StartProcessing ==
    /\ impl = "v1" \/ running_loop
    /\ creating + monitoring + ended < MaxCalls
    /\ creating' = creating + 1
    /\ emitted' = <<>>
    /\ EventSeen
    /\ UNCHANGED <<impl, running_loop, migVars, cleanVars, pureVars, obsVars, returned, failed_polls, store, response,
                   procVars, provVars, termVars, histVars, validVars, monitoring, ended>>

\* create_call answers for one of the calls: accepted, its poll loop starts;
\* refused, its processing ends.
CallCreated(accepted) ==
    /\ creating > 0
    /\ creating' = creating - 1
    /\ IF accepted
       THEN monitoring' = monitoring + 1 /\ UNCHANGED ended
       ELSE ended' = ended + 1 /\ UNCHANGED monitoring
    /\ emitted' = <<>>
    /\ EventSeen
    /\ UNCHANGED <<impl, running_loop, migVars, cleanVars, pureVars, obsVars, returned, failed_polls, store, response,
                   procVars, provVars, termVars, histVars, validVars>>

\* the poll loop of one of the calls exits
LoopExited ==
    /\ monitoring > 0
    /\ monitoring' = monitoring - 1
    /\ ended' = ended + 1
    /\ emitted' = <<>>
    /\ EventSeen
    /\ UNCHANGED <<impl, running_loop, migVars, cleanVars, pureVars, obsVars, returned, failed_polls, store, response,
                   procVars, provVars, termVars, histVars, validVars, creating>>

NextPool ==
    \/ StartProcessing
    \/ \E accepted \in BOOLEAN : CallCreated(accepted)
    \/ LoopExited

SpecPool == Init /\ [][NextPool]_vars

-----------------------------------------------------------------------------
(* scripts/migrate_v1_to_v2.py                                             *)

LegacyDb == "logs/calls.db"
NewDb == "data/calls.db"

\* What the working directory may hold before the migration.
PathsBefore == {LegacyDb, NewDb, "config.py", "templates/", "requirements-updated.txt"}

\* The operations that may raise: the schema update of the copied database,
\* and the writing of .env.
Faults == {"schema", "env"}

\* Python's `not v' for what the steps return
PyNot(v) == v = None \/ v = PyFalse

\* migrate_database: <<what it returns, the paths afterwards>>. Without the
\* legacy database it returns by a bare `return'.
migrate_database(fs, flt) ==
    IF LegacyDb \notin fs THEN <<None, fs>>
    ELSE IF "schema" \in flt THEN <<PyFalse, fs \cup {NewDb}>>
    ELSE <<PyTrue, fs \cup {NewDb}>>

\* migrate_configuration: <<what it returns, the paths afterwards>>
migrate_configuration(fs, flt) ==
    IF "env" \in flt THEN <<PyFalse, fs>> ELSE <<PyTrue, fs \cup {".env"}>>

\* update_file_structure: the directories it creates
update_file_structure(fs) == fs \cup {"src/"}

\* verify_migration: all_good
verify_migration(fs) ==
    PyBool({".env", NewDb, "src/", "templates/", "requirements-updated.txt"} \subseteq fs)

\* main(), step 1: backup_existing_data
BackupStep ==
    /\ mig_pc = "backup"
    /\ mig_pc' = "database"
    /\ UNCHANGED <<exit_code, files>>
    /\ emitted' = <<>>
    /\ EventSeen
    /\ UNCHANGED <<impl, running_loop, cleanVars, poolVars, pureVars, obsVars, returned, failed_polls, store,
                   response, procVars, provVars, termVars, histVars, validVars, faults>>

\* main(), step 2: migrate_database, `if not migrate_database(): return 1'
DatabaseStep ==
    /\ mig_pc = "database"
    /\ LET r == migrate_database(files, faults)
       IN /\ files' = r[2]
          /\ IF PyNot(r[1])
             THEN mig_pc' = "exit" /\ exit_code' = <<"1">>
             ELSE mig_pc' = "configuration" /\ UNCHANGED exit_code
    /\ emitted' = <<>>
    /\ EventSeen
    /\ UNCHANGED <<impl, running_loop, cleanVars, poolVars, pureVars, obsVars, returned, failed_polls, store,
                   response, procVars, provVars, termVars, histVars, validVars, faults>>

\* main(), step 3: migrate_configuration
ConfigurationStep ==
    /\ mig_pc = "configuration"
    /\ LET r == migrate_configuration(files, faults)
       IN /\ files' = r[2]
          /\ IF PyNot(r[1])
             THEN mig_pc' = "exit" /\ exit_code' = <<"1">>
             ELSE mig_pc' = "structure" /\ UNCHANGED exit_code
    /\ emitted' = <<>>
    /\ EventSeen
    /\ UNCHANGED <<impl, running_loop, cleanVars, poolVars, pureVars, obsVars, returned, failed_polls, store,
                   response, procVars, provVars, termVars, histVars, validVars, faults>>

\* main(), step 4: update_file_structure, which returns True
StructureStep ==
    /\ mig_pc = "structure"
    /\ files' = update_file_structure(files)
    /\ mig_pc' = "cleanup"
    /\ UNCHANGED exit_code
    /\ emitted' = <<>>
    /\ EventSeen
    /\ UNCHANGED <<impl, running_loop, cleanVars, poolVars, pureVars, obsVars, returned, failed_polls, store,
                   response, procVars, provVars, termVars, histVars, validVars, faults>>

\* main(), step 5: cleanup_old_files, whose result is not looked at
CleanupStepOfMain ==
    /\ mig_pc = "cleanup"
    /\ mig_pc' = "verify"
    /\ UNCHANGED <<exit_code, files>>
    /\ emitted' = <<>>
    /\ EventSeen
    /\ UNCHANGED <<impl, running_loop, cleanVars, poolVars, pureVars, obsVars, returned, failed_polls, store,
                   response, procVars, provVars, termVars, histVars, validVars, faults>>

\* main(), step 6: verify_migration, then return 0
VerifyStep ==
    /\ mig_pc = "verify"
    /\ mig_pc' = "exit"
    /\ exit_code' = IF PyNot(verify_migration(files)) THEN <<"1">> ELSE <<"0">>
    /\ UNCHANGED files
    /\ emitted' = <<>>
    /\ EventSeen
    /\ UNCHANGED <<impl, running_loop, cleanVars, poolVars, pureVars, obsVars, returned, failed_polls, store,
                   response, procVars, provVars, termVars, histVars, validVars, faults>>

InitMigrate ==
    /\ impl = "v1"
    /\ running_loop = FALSE
    /\ InitOrchestrator
    /\ InitPure
    /\ data = ValidRequest
    /\ errors = NotRun
    /\ errors_v1 = NotRun
    /\ mig_pc = "backup"
    /\ exit_code = None
    /\ files \in SUBSET PathsBefore
    /\ faults \in SUBSET Faults

NextMigrate ==
    \/ BackupStep
    \/ DatabaseStep
    \/ ConfigurationStep
    \/ StructureStep
    \/ CleanupStepOfMain
    \/ VerifyStep

SpecMigrate == InitMigrate /\ [][NextMigrate]_vars

-----------------------------------------------------------------------------
(* The success classifier and the phone check called directly              *)

Confirmed == <<"C", "o", "n", "f", "i", "r", "m", "e", "d", ".", " ">>
WasUnable == <<"u", "n", "a", "b", "l", "e", " ", "t", "o", " ">>
DoneWord == <<"d", "o", "n", "e", " ">>
Denied == <<"d", "e", "n", "i", "e", "d", " ">>
ChangeApplied == <<"c", "h", "a", "n", "g", "e", " ", "a", "p", "p", "l", "i", "e", "d", " ">>

\* The utterances the transcripts are made of.
Fragments == {Confirmed, WasUnable, DoneWord, Denied, ChangeApplied}

MaxFragments == 3

RECURSIVE Utterances(_)
Utterances(n) ==
    IF n = 0 THEN {<<>>}
    ELSE Utterances(n - 1)
            \cup {t \o f : t \in Utterances(n - 1), f \in Fragments}

\* The transcripts of up to MaxFragments utterances, the empty one included
Spoken == Utterances(MaxFragments)

\* The transcripts given: none, or a spoken one.
TranscriptInputs == {None} \cup Spoken

\* The classifier of the implementation
classify(transcript) ==
    IF impl = "v1" THEN analyze_call_success(transcript)
    ELSE _analyze_call_success(transcript)

\* success = self._analyze_call_success(transcript)
Analyze ==
    /\ verdict = None
    /\ verdict' = PyBool(classify(analyzed))
    /\ emitted' = <<>>
    /\ EventSeen
    /\ UNCHANGED <<impl, running_loop, migVars, poolVars, cleanVars, obsVars, analyzed, phone, phone_valid, store, response,
                   procVars, provVars, termVars, histVars, validVars, failed_polls,
                   returned>>

\* The transcript with one more occurrence of a success phrase, said before or
\* after it as an utterance of its own, and classified again.
AnalyzeWithOneMore(i, before) ==
    /\ verdict # None
    /\ analyzed \in Spoken
    /\ analyzed' = IF before THEN success_phrases[i] \o <<" ">> \o analyzed
                   ELSE analyzed \o <<" ">> \o success_phrases[i]
    /\ verdict' = PyBool(classify(analyzed'))
    /\ emitted' = <<>>
    /\ EventSeen
    /\ UNCHANGED <<impl, running_loop, migVars, poolVars, cleanVars, obsVars, phone, phone_valid, store, response,
                   procVars, provVars, termVars, histVars, validVars, failed_polls,
                   returned>>

InitClassify ==
    /\ impl \in {"v1", "v2"}
    /\ running_loop = FALSE
    /\ InitOrchestrator
    /\ NoMigration
    /\ data = ValidRequest
    /\ errors = NotRun
    /\ errors_v1 = NotRun
    /\ analyzed \in TranscriptInputs
    /\ verdict = None
    /\ phone = None
    /\ phone_valid = None

NextClassify ==
    \/ Analyze
    \/ \E i \in DOMAIN success_phrases, before \in BOOLEAN : AnalyzeWithOneMore(i, before)

SpecClassify == InitClassify /\ [][NextClassify]_vars

\* What comes before the digits of the numbers tried, and after them
PhonePrefixes ==
    {<<>>, <<"+">>, <<"+", "+">>, <<"1">>, <<"+", "1">>, <<"+", "1", " ", "(">>}
PhoneSuffixes == {<<>>, <<"-">>, <<"+">>}

MaxDigitsTried == 16

\* The strings given to validate_phone_number
PhoneInputs ==
    {None} \cup {pre \o Repeat("5", n) \o suf :
                    pre \in PhonePrefixes, n \in 0..MaxDigitsTried, suf \in PhoneSuffixes}

\* validate_phone_number(phone)
ApplyValidatePhoneNumber ==
    /\ phone_valid = None
    /\ phone_valid' = PyBool(validate_phone_number(phone))
    /\ emitted' = <<>>
    /\ EventSeen
    /\ UNCHANGED <<impl, running_loop, migVars, poolVars, cleanVars, obsVars, analyzed, verdict, phone, store, response,
                   procVars, provVars, termVars, histVars, validVars, failed_polls,
                   returned>>

InitPhone ==
    /\ impl = "v2"
    /\ running_loop = FALSE
    /\ InitOrchestrator
    /\ NoMigration
    /\ data = ValidRequest
    /\ errors = NotRun
    /\ errors_v1 = NotRun
    /\ analyzed = None
    /\ verdict = None
    /\ phone \in PhoneInputs
    /\ phone_valid = None

NextPhone == ApplyValidatePhoneNumber

SpecPhone == InitPhone /\ [][NextPhone]_vars

-----------------------------------------------------------------------------
(* Properties                                                              *)

Stored == CallId \in DOMAIN store

Record == store[CallId]

\* C1: once the call's own processing has persisted a terminal status
\* (completed, failed, no_answer, busy, timeout), every later write of that
\* processing leaves the status as it is: the first terminal status it wrote
\* is the status of its latest write.
C1_OwnTerminalIsFinal ==
    own_terminal # NoStatus => own_last = own_terminal

\* C2: a terminate that succeeded on a DIALING call leaves the record
\* TERMINATED with a completion timestamp, whatever the poll loop does next.
C2_TerminatedStays ==
    term_from = "dialing" =>
        /\ Stored
        /\ Record.status = "terminated"
        /\ Record.completed_at # None

\* The status the record had when the terminate request now taking a step was
\* made: read in this step, or read before (term_seen) by the request whose
\* write this step is.
StatusAtTerminate ==
    IF term_pc = "checked" THEN term_seen
    ELSE IF Stored THEN Record.status ELSE NoStatus

TerminateStep == terminates' # terminates \/ term_pc' # term_pc

\* C3: terminate changes a record only when its status at the time of the
\* call is DIALING or IN_PROGRESS; on any other status it answers with an
\* error and leaves the store as it was.
C3_TerminateOnlyActive ==
    [][(TerminateStep /\ StatusAtTerminate \notin ActiveStatuses) =>
          (store' = store /\ response'.op = "terminate" /\ response'.code = "500")]_vars

\* The last answer is that of a submit.
Submitted == response.op = "submit"

\* C4: every valid request is answered with its call id, and from that answer
\* on the store holds the call's record (never absent).
C4_ValidSubmitReturnsCallId ==
    (Submitted /\ validate_call_request(response.request) = <<>>) =>
        /\ response.code = "200"
        /\ response.call_id = CallId
        /\ Stored

\* C5: a request that fails validation leaves nothing behind.  In the
\* package: a rejected submit's request fails validation and the store, the
\* processing and the provider are as if it had not been made; no stored
\* record holds a request that fails validation; processing and create_call
\* exist only for a stored record.
C5_RejectedBeforePersistence ==
    impl = "v2" =>
        /\ (Submitted /\ response.code = "400") =>
              /\ validate_call_request(response.request) # <<>>
              /\ \A id \in DOMAIN store : store[id].request # response.request
        /\ \A id \in DOMAIN store : validate_call_request(store[id].request) = <<>>
        /\ (pc # "idle" \/ createCalls > 0) => Stored

C5_Witness ==
    /\ impl = "v2"
    /\ Submitted
    /\ response.code = "400"
    /\ response.request.caller_phone = BadPhoneWord
    /\ ~Stored
    /\ pc = "idle"
    /\ createCalls = 0

\* A value that is missing, empty or whitespace-only.
Blank(v) == v = None \/ \A i \in 1..Len(v) : v[i] \in Whitespace

Named(errs, e) == \E i \in 1..Len(errs) : errs[i] = e

\* C6: whichever required fields are missing, empty or whitespace-only, each
\* of them is named in the error list, by validate_call_request and by the
\* monolith's check alike.
C6_EveryBlankFieldNamed ==
    \A i \in 1..Len(required_fields) :
        Blank(data[required_fields[i]]) =>
            /\ errors # NotRun => Named(errors, RequiredError(required_fields[i]))
            /\ errors_v1 # NotRun => Named(errors_v1, MissingError(required_fields[i]))

\* C7: four required fields present but empty or whitespace-only give
\* exactly four errors.
C7_FourBlankFieldsFourErrors ==
    (/\ errors # NotRun
     /\ \A i \in 1..Len(required_fields) :
            data[required_fields[i]] \in {EmptyStr, BlankStr}
     /\ data.additional_info = None)
    => Len(errors) = 4

\* create_call answered with an error.
CreationRefused == create_result.kind \in {"error", "raise"}

C9_CompletedEndsCompleted ==
    impl = "v2" =>
        /\ (create_result.kind = "ok" /\ create_result.call_id = ProvId) =>
              Stored /\ Record.synthflow_call_id = ProvId
        /\ (/\ pc = "done"
            /\ terminates = 0
            /\ call_status = "completed"
            /\ Stored
            /\ Record.transcript = ClosedConfirmed) =>
              /\ Record.status = "completed"
              /\ Record.success = PyTrue
              /\ Record.completed_at # None

\* C10: the stuck-in-queue failure is in the record only after more than
\* QueuePolls polls in a row reported 'queue', and before the poll budget is
\* used up.
C10_StuckInQueueAfterSevenQueuedPolls ==
    (Stored /\ Record.error_message = StuckInQueue) =>
        /\ queued_polls > QueuePolls
        /\ poll_count < max_polls

\* The poll loop has been left.
LoopLeft == pc \in {"after_loop", "done"}

\* C11: the poll loop is left on a failed poll, with budget remaining, only
\* when that poll is the third failure in a row; and once three polls in a
\* row have failed the loop has been left and the processing's last write is
\* FAILED.
C11_GiveUpAfterThreeFailedPolls ==
    /\ (LoopLeft /\ failed_polls > 0 /\ poll_count < max_polls) =>
            failed_polls >= ErrorPolls
    /\ failed_polls >= ErrorPolls => (LoopLeft /\ own_last = "failed")

\* The statuses after which a call changes no more.
TerminalStatuses == {"completed", "failed", "no_answer", "busy", "terminated", "timeout"}

CleanupStep == CleanupV1 \/ CleanupV2

\* C12: a cleanup sweep changes only calls that are non-terminal and were
\* created more than StaleMinutes ago, sets every such IN_PROGRESS call to
\* FAILED, and returns the number of calls it changed.
C12_CleanupFlipsOnlyStale ==
    [][CleanupStep =>
          /\ DOMAIN store' = DOMAIN store
          /\ \A id \in DOMAIN store :
                /\ store'[id] # store[id] =>
                      /\ store[id].status \notin TerminalStatuses
                      /\ store[id].created_at < 0 - StaleMinutes
                /\ (store[id].status = "in_progress"
                        /\ store[id].created_at < 0 - StaleMinutes) =>
                      store'[id].status = "failed"
          /\ returned'.value =
                <<ToString(Cardinality({id \in DOMAIN store : store'[id] # store[id]}))>>]_vars

\* How many of the events carry the status
Occurrences(events, status) ==
    Cardinality({i \in DOMAIN events : events[i] = status})

\* C13: every change of the call's persisted status comes with exactly one
\* call_update event carrying the new status, in the step that persists it, and
\* a step that leaves the persisted status alone emits no event (so a
\* transition is neither persisted silently nor announced twice).
C13_EachTransitionOneEvent ==
    [][Stored =>
          /\ Record'.status # Record.status =>
                  Occurrences(emitted', Record'.status) = 1
          /\ Record'.status = Record.status => emitted' = <<>>]_vars

\* C14: get, update and terminate on an id the store does not hold answer with
\* an error (404, False, a non-200 answer) and leave the store as it was.
C14_UnknownIdIsNotFound ==
    [][/\ \A id \in StoreIds :
            (GetCall(id) /\ id \notin DOMAIN store) =>
                (returned'.value = <<"404">> /\ store' = store)
       /\ \A id \in StoreIds, updates \in Partials :
            (UpdateCall(id, updates) /\ id \notin DOMAIN store) =>
                (returned'.value = PyFalse /\ store' = store)
       /\ (TerminateStep /\ ~Stored) =>
                (store' = store /\ response'.op = "terminate"
                    /\ response'.code # "200")]_vars

\* The step is a direct call of the store operation op (the terminate route
\* leaves returned alone).
StoreStep(op) == returned'.op = op /\ ~TerminateStep

\* C15: a save under an id the store already holds is refused (it returns
\* False) and leaves the store, the existing record included, as it was; the
\* store never holds more ids than were saved.
C15_DuplicateSaveRefused ==
    [][(StoreStep("save") /\ returned'.call_id \in DOMAIN store) =>
            /\ store' = store
            /\ returned'.value = PyFalse]_vars

\* A save has just been refused for an id the store holds.
C15_Witness ==
    /\ returned.op = "save"
    /\ returned.value = PyFalse
    /\ returned.call_id \in DOMAIN store

\* C16: an update of a stored call overwrites exactly the fields of its
\* partial: each field the partial gives has the partial's value, every other
\* field of the record keeps its value, and every other record is unchanged.
C16_UpdateOverwritesOnlyPartial ==
    [][(StoreStep("update") /\ returned'.call_id \in DOMAIN store) =>
            LET id == returned'.call_id
                updates == returned'.updates
            IN /\ DOMAIN store' = DOMAIN store
               /\ DOMAIN store'[id] = DOMAIN store[id]
               /\ \A f \in DOMAIN store[id] :
                      store'[id][f] = IF f \in DOMAIN updates THEN updates[f]
                                      ELSE store[id][f]
               /\ \A other \in DOMAIN store \ {id} : store'[other] = store[other]]_vars

\* An update of two fields has just been applied to one of two stored calls
\* whose other fields hold values of their own.
C16_Witness ==
    /\ returned.op = "update"
    /\ returned.value = PyTrue
    /\ DOMAIN returned.updates = {"transcript", "success"}
    /\ DOMAIN store = StoreIds
    /\ store[returned.call_id].transcript = UnableTo
    /\ store[returned.call_id].error_message = CleanupMessage
    /\ store[returned.call_id].status = "failed"

\* C17: an update with the empty partial leaves the whole store, and so every
\* stored record, as it was, wherever in a sequence of operations it happens.
C17_EmptyUpdateChangesNothing ==
    [][(StoreStep("update") /\ returned'.updates = <<>>) => store' = store]_vars

\* The empty partial has just been given for a stored call whose record has
\* been written to since its save.
C17_Witness ==
    /\ returned.op = "update"
    /\ returned.updates = <<>>
    /\ returned.call_id \in DOMAIN store
    /\ store[returned.call_id].transcript = UnableTo

\* How often the phrase occurs in the text
PhraseOccurrences(text, phrase) ==
    Cardinality({i \in 0..(Len(text) - Len(phrase)) :
                    SubSeq(text, i + 1, i + Len(phrase)) = phrase})

RECURSIVE TotalOccurrences(_, _)
TotalOccurrences(text, phrases) ==
    IF phrases = <<>> THEN 0
    ELSE PhraseOccurrences(text, Head(phrases))
            + TotalOccurrences(text, Tail(phrases))

\* The phrase lists of the implementation
PositivePhrases == IF impl = "v1" THEN success_phrases_v1 ELSE success_phrases
NegativePhrases == IF impl = "v1" THEN failure_phrases_v1 ELSE failure_phrases

\* C18: the classifier returns true exactly when the lower-cased transcript
\* holds more occurrences of positive phrases than of negative phrases, and
\* false for an empty or missing transcript.
C18_TrueIffMorePositiveOccurrences ==
    verdict # None =>
        verdict = PyBool(/\ Truthy(analyzed)
                         /\ TotalOccurrences(Lower(analyzed), PositivePhrases)
                                > TotalOccurrences(Lower(analyzed), NegativePhrases))

\* C19: a transcript classified true is still classified true with one more
\* occurrence of any positive phrase added to it.
C19_MonotonicInPositivePhrases ==
    [][(analyzed' # analyzed /\ verdict = PyTrue) => verdict' = PyTrue]_vars

\* A transcript that holds a negative phrase was classified true, and is so
\* again with one more positive phrase after it.
C19_Witness ==
    /\ verdict = PyTrue
    /\ \E i \in DOMAIN success_phrases, base \in Spoken :
            /\ analyzed = base \o <<" ">> \o success_phrases[i]
            /\ classify(base)
            /\ Score(failure_phrases, Lower(base)) > 0
            /\ Contains(Lower(base), success_phrases[i])

\* The string without its formatting characters: its digits and '+' signs
Normalized(text) == SelectSeq(text, LAMBDA c : c \in Digits \cup {"+"})

\* An optional single leading '+', then 10 to 14 digits and nothing else
PlusAndDigits(text) ==
    LET digits == IF text # <<>> /\ Head(text) = "+" THEN Tail(text) ELSE text
    IN /\ Len(digits) \in MinPhoneDigits..MaxPhoneDigits
       /\ \A i \in DOMAIN digits : digits[i] \in Digits

\* C20: validate_phone_number accepts a string exactly when, without its
\* formatting characters, it is an optional single leading '+' followed by 10
\* to 14 digits (so fewer than 10 or more than 14 digits, a lone '+' and a
\* doubled '+' are rejected).
C20_PhoneAcceptedIffPlusAndDigits ==
    phone_valid # None =>
        phone_valid = PyBool(Truthy(phone) /\ PlusAndDigits(Normalized(phone)))

\* C21: once terminate has written 'terminated' to the record, the call's poll
\* loop requests get_call_status at most one more time.
C21_AtMostOnePollAfterTerminate == polls_after_term <= 1

\* The poll loop has used its whole budget without seeing a finished status.
BudgetSpent ==
    /\ pc = "done"
    /\ poll_count >= max_polls
    /\ call_status \notin FinishedStatuses

\* C22: when the loop has made its maximum number of polls and the call is
\* still not terminal, the record's status is TIMEOUT, an event carrying it
\* has been emitted, and no further poll is made.
C22_BudgetSpentGivesTimeout ==
    (BudgetSpent /\ terminates = 0) =>
        /\ Record.status = "timeout"
        /\ emitted = <<"timeout">>
        /\ statusCalls = max_polls

\* The call's processing is in its poll loop or on the way out of it.
InLoop == pc \in {"sleeping", "polling", "transcript", "after_loop"}

\* The steps the loop can still take at most: two for every poll it has left,
\* and those on the way out.
LoopRank ==
    IF pc = "sleeping" THEN 2 * (max_polls - poll_count) + 2
    ELSE IF pc = "polling" THEN 2 * (max_polls - poll_count) + 3
    ELSE IF pc = "transcript" THEN 2
    ELSE IF pc = "after_loop" THEN 1
    ELSE 0

\* C23: whatever the provider answers, an error on every poll included, the
\* loop requests get_call_status at most max_polls times (24 at most) and
\* then ends: inside the loop a next step is always possible, and every step
\* brings the loop nearer to its end.
C23_PollsBoundedAndLoopEnds ==
    /\ [](/\ statusCalls <= max_polls
          /\ max_polls <= MaxPollsV2
          /\ InLoop => ENABLED Processing)
    /\ [][(InLoop /\ pc' # pc) => (LoopRank' < LoopRank /\ LoopRank' >= 0)]_vars

\* Every one of the 24 polls failed, and the loop has ended.
C23_Witness ==
    /\ impl = "v2"
    /\ pc = "done"
    /\ statusCalls = MaxPollsV2
    /\ call_status = NoStatus
    /\ failed_polls = ErrorPolls

\* The status the loop observed on its previous poll
Observed == IF impl = "v1" THEN last_status ELSE call_status

\* The step is the loop's handling of an answer of get_call_status.
PollAnswered == pc = "polling" /\ pc' # pc

\* C24: a poll whose status is the one the previous poll gave updates no
\* record and emits no event.
C24_SameStatusNoWriteNoEvent ==
    [][(PollAnswered /\ Observed # NoStatus /\ call_status' = Observed) =>
            (poll_writes' = 0 /\ store' = store /\ emitted' = <<>>)]_vars

\* The transcript request fails.
TranscriptFailure == [kind |-> "error", transcript |-> EmptyStr]

\* The step is the loop's handling of a failed transcript request.
TranscriptFailed ==
    TranscriptResponseV2(TranscriptFailure) \/ TranscriptResponseV1(TranscriptFailure)

C26_UnknownStatusHolds ==
    [][\A r \in StatusResults :
            (r.kind = "calls" /\ r.status \notin CallStatus /\ PollResponseV2(r)) =>
                /\ pc' = LoopCheck(poll_count)
                /\ transcriptCalls' = transcriptCalls
                /\ Record'.status \notin TerminalStatuses]_vars

\* The statuses of a call that has not ended
NonTerminalStatuses == {"pending", "initiating", "dialing", "in_progress"}

\* C27: the cleanup sets every call that is in a non-terminal status and was
\* created more than 30 minutes ago to FAILED with an error message, however
\* many calls the store holds.
C27_CleanupFailsEveryStaleCall ==
    [][CleanupStep =>
          \A id \in DOMAIN store :
              (/\ store[id].status \in NonTerminalStatuses
               /\ store[id].created_at < 0 - StaleMinutes) =>
                  /\ store'[id].status = "failed"
                  /\ Truthy(store'[id].error_message)]_vars

\* C28: when the call's processing has ended, whatever ended it, the record
\* holds a terminal status: no call is left non-terminal with no loop running.
C28_EndedProcessingIsTerminal ==
    pc = "done" => (Stored /\ Record.status \in TerminalStatuses)

\* C29: a record with a terminal status has its completion time, and one
\* with a provider-reported terminal status written by the loop has its
\* transcript and success flag as well, in every state a reader can see.
C29_TerminalHasCompletionTime ==
    (Stored /\ Record.status \in TerminalStatuses) =>
        /\ Record.completed_at # None
        /\ (pc = "transcript" /\ Record.status = call_status) =>
                (Record.transcript # None /\ Record.success # None)

\* C30: a terminate that has read an active status does not write
\* 'terminated' over a terminal status the poll loop has persisted between
\* that read and the write.
C30_TerminateKeepsTerminal ==
    [][(term_pc = "checked" /\ TerminateStep /\ Record.status \in FinishedStatuses) =>
            Record'.status = Record.status]_vars

\* A write of the cleanup sweep or of the poll loop, while the loop runs.
CleanupOrLoopStep == InLoop /\ ~TerminateStep /\ store' # store

\* C31: with a cleanup sweep and the call's poll loop running side by side,
\* the call makes one terminal transition at most: once a terminal status is
\* persisted, neither the sweep nor the loop replaces it.
C31_OneTerminalTransition ==
    [][(CleanupOrLoopStep /\ Stored /\ Record.status \in TerminalStatuses) =>
            Record'.status = Record.status]_vars

\* The call's processing has ended and no terminate request is under way.
WritersFinished == pc = "done" /\ term_pc = "idle"

\* C32: once the poll loop and the terminate handler have finished, the
\* status of the last call_update event emitted for the call is the status
\* the record holds.
C32_LastEventIsPersistedStatus ==
    (WritersFinished /\ Stored /\ last_event # NoStatus) =>
        last_event = Record.status

\* C33: a record in DIALING or IN_PROGRESS carries a provider call id, and
\* the poll loop does not sleep or poll without one, whatever create_call
\* returned.
C33_ActiveHasProviderId ==
    /\ (Stored /\ Record.status \in ActiveStatuses) => Truthy(Record.synthflow_call_id)
    /\ pc \in {"sleeping", "polling"} => Truthy(synthflow_call_id)

\* The place of a status along PENDING, INITIATING, DIALING, IN_PROGRESS,
\* terminal; the monolith's 'checking_phone_config' and 'initiated' stand
\* with INITIATING, before the call is dialed.
Stage(status) ==
    CASE status = "pending" -> 0
      [] status = "dialing" -> 2
      [] status = "in_progress" -> 3
      [] status \in TerminalStatuses -> 4
      [] OTHER -> 1

\* C34: a poll result never moves the persisted status back to an earlier
\* state of PENDING, INITIATING, DIALING, IN_PROGRESS, terminal.
C34_PollNeverMovesBack ==
    [][(PollAnswered /\ Stored) => Stage(Record'.status) >= Stage(Record.status)]_vars

\* The call is handed to its asynchronous processing; a create_call request
\* is issued.
Scheduled == pc # "scheduled" /\ pc' = "scheduled"
CreateCallInvoked == createCalls' > createCalls

\* C35: a call handed to its asynchronous processing has been persisted with
\* status PENDING, and when create_call is invoked for it the record exists
\* and has just been moved to INITIATING: no provider request comes before
\* the record has passed through PENDING and INITIATING.
C35_PendingThenInitiatingBeforeCreate ==
    [][/\ Scheduled => (Stored' /\ Record'.status = "pending")
       /\ CreateCallInvoked => (Stored /\ Record'.status = "initiating")]_vars

\* C36: the calls whose processing (creation, then the poll loop) is running
\* at one moment are never more than the worker pool's size, however many
\* calls are submitted.
C36_RunningWithinCap == creating + monitoring <= max_workers

\* C37: with no legacy database at logs/calls.db, the database step is
\* skipped and main() goes on to the configuration step (and from there to
\* the file structure, the cleanup and the verification) without exiting.
C37_NoLegacyDbContinues ==
    [][(mig_pc = "database" /\ LegacyDb \notin files) =>
            (mig_pc' = "configuration" /\ exit_code' = None)]_vars

====
